---- MODULE Spec2Model ----
(***************************************************************************)
(* A state-machine model of PlecFinder's branch detection / resolution /   *)
(* combination pipeline (src/plecfinder/plecfinder.py, find_plecs and the  *)
(* helpers it calls).                                                      *)
(*                                                                         *)
(* Numbers.  The writhe matrix holds integers (writhe in some fixed small  *)
(* unit).  The thresholds are carried in the same unit:                    *)
(*   par.T  is minwr_per_seg = disc_len * min_writhe_density / (2 pi/om0), *)
(*   par.M  is plec_min_writhe,                                            *)
(*   par.cs is connect_segs = ceil(connect_dist / disc_len).               *)
(* A density test  (2 pi/om0) * wr / (segs * disc_len) >= min_writhe_density*)
(* is, for segs > 0, the exact-arithmetic test  wr >= par.T * segs, which  *)
(* is how it is written below.                                             *)
(*                                                                         *)
(* Indices are the 0-based indices of the Python code; sequences of the    *)
(* model are 1-based, so list position k of the code is position k+1 here. *)
(***************************************************************************)
EXTENDS Integers, Sequences, FiniteSets, TLC

\* ------------------------------------------------------------------ bounds
\* size of the writhe matrix (rows and columns 0..N-1)
N == 6
\* largest number of non-zero entries (symmetric pairs of entries) of a matrix
MaxNonZero == 3
\* the same, for a matrix drawn as a function input
MaxFnNonZero == 1
\* largest number of branches of a branch list drawn as a function input
MaxBranches == 2
\* largest number of pairs of a pair list drawn as a function input
MaxPairs == 4

\* values a non-zero matrix entry is drawn from
Vals == {-1, 1, 2}
\* values of minwr_per_seg, plec_min_writhe and connect_segs that are drawn
TVals == {0, 1}
MVals == {0, 3}
CsVals == {0, 1}

\* number of columns of a pair row: np.zeros((nbp, 5))
PairWidth == 5

VARIABLES
    WM,         \* the writhe matrix returned by calculate_WM
    pwm,        \* pWM, the matrix with the sign of its mean made positive
    par,        \* the parameters of the call
    pc,         \* position in find_plecs (or in the function under test)
    pairs,      \* result of _find_pairs
    rawtr,      \* the tracers of _find_branches: pairs with x and y limits
    tracers,    \* the tracer bands, parallel to branches
    branches,   \* the current branch list
    classified, \* the branch list as returned by _find_branches
    pre,        \* the branch list before the last stage that ran
    comb,       \* composite candidates (combbranches)
    contained,  \* contained_branch_ids
    plecs,      \* result of _define_plecs
    plec_branch_ids, \* per plectoneme, the ids of its composite's branches
    topol,      \* the topology dictionary that find_plecs returns
    called      \* the stages invoked so far

vars == <<WM, pwm, par, pc, pairs, rawtr, tracers, branches, classified, pre, comb,
          contained, plecs, plec_branch_ids, topol, called>>

Idx == 0 .. (N - 1)
Interior == 1 .. (N - 2)

\* ------------------------------------------------------------ small helpers
minint(a, b) == IF a < b THEN a ELSE b

maxint(a, b) == IF a > b THEN a ELSE b

Abs(x) == IF x < 0 THEN 0 - x ELSE x

Sign(x) == IF x > 0 THEN 1 ELSE IF x < 0 THEN -1 ELSE 0

\* numpy's normalisation of a slice bound on an axis of length N
SliceBound(s) == IF s < 0 THEN maxint(s + N, 0) ELSE minint(s, N)

RECURSIVE SumRow(_, _, _, _)
SumRow(W, i, c, ce) ==
    IF c >= ce THEN 0 ELSE W[i][c] + SumRow(W, i, c + 1, ce)

RECURSIVE SumRect(_, _, _, _, _)
SumRect(W, r, re, c, ce) ==
    IF r >= re THEN 0 ELSE SumRow(W, r, c, ce) + SumRect(W, r + 1, re, c, ce)

\* np.sum(W[r0:r1, c0:c1])
NpSum(W, r0, r1, c0, c1) ==
    SumRect(W, SliceBound(r0), SliceBound(r1), SliceBound(c0), SliceBound(c1))

\* np.sum(W)
Total(W) == NpSum(W, 0, N, 0, N)

cal_branch_writhe(W, X1, X2, Y1, Y2) == NpSum(W, X1, X2 + 1, Y1, Y2 + 1)

BranchWrithe(W, b) == cal_branch_writhe(W, b.x1, b.x2, b.y1, b.y2)

is_downstream(a1, a2, b1, b2) ==
    (a1 <= b1 /\ b1 <= a2) /\ (a1 <= b2 /\ b2 <= a2)

\* ------------------------------------------------------------- writhe matrix
\* WM[:,0] = WM[:,-1] = WM[0,:] = WM[-1,:] = 0
calculate_WM(raw) ==
    [i \in Idx |-> [j \in Idx |->
        IF i = 0 \/ i = N - 1 \/ j = 0 \/ j = N - 1 THEN 0 ELSE raw[i][j]]]

\* pWM = np.sign(np.mean(WM)) * WM
pWM(W) == [i \in Idx |-> [j \in Idx |-> Sign(Total(W)) * W[i][j]]]

\* --------------------------------------------------------------- _find_pairs
\* np.argmax: the first index of the row maximum
\* ArgMax returning the last index of the row maximum
ArgMax_last(W, i) ==
    CHOOSE j \in Idx :
        /\ \A k \in Idx : W[i][k] <= W[i][j]
        /\ \A k \in Idx : k > j => W[i][k] < W[i][j]

ArgMax(W, i) ==
    CHOOSE j \in Idx :
        /\ \A k \in Idx : W[i][k] <= W[i][j]
        /\ \A k \in Idx : k < j => W[i][k] < W[i][j]

\* PairRow with "summed >= minwr_per_seg" for "summed > minwr_per_seg"
PairRow_ge(W, T, i) ==
    LET j == ArgMax(W, i)
        summed == SumRow(W, i, 0, N)
    IN  [x |-> i, y |-> j, summed |-> summed, w |-> W[i][j] * 2,
         flag |-> IF summed >= T THEN 1 ELSE 0]

\* row i of the pairs array: [i, j, summed, WM[i, j] * 2, flag]
PairRow(W, T, i) ==
    LET j == ArgMax(W, i)
        summed == SumRow(W, i, 0, N)
    IN  [x |-> i, y |-> j, summed |-> summed, w |-> W[i][j] * 2,
         flag |-> IF summed > T THEN 1 ELSE 0]

\* mpair: the pair with its two indices swapped when the second is smaller
Mirror(p) == IF p.y < p.x THEN [p EXCEPT !.x = p.y, !.y = p.x] ELSE p

RECURSIVE FilterMirror(_, _, _)
FilterMirror(W, T, i) ==
    IF i >= N THEN << >>
    ELSE LET p == PairRow(W, T, i)
         IN  (IF p.flag = 0 THEN << >> ELSE << Mirror(p) >>)
                 \o FilterMirror(W, T, i + 1)

\* insertion of p behind every element whose key is not larger
RECURSIVE InsertByX(_, _)
InsertByX(s, p) ==
    IF s = << >> THEN << p >>
    ELSE IF Head(s).x <= p.x THEN << Head(s) >> \o InsertByX(Tail(s), p)
    ELSE << p >> \o s

\* np.argsort(mpairs[:, 0]): for the fewer than 17 rows of a matrix of this
\* size numpy's introsort is its insertion sort, which keeps equal keys in order
RECURSIVE SortByX(_)
SortByX(s) ==
    IF s = << >> THEN << >>
    ELSE InsertByX(SortByX(SubSeq(s, 1, Len(s) - 1)), s[Len(s)])

find_pairs(W, T) == SortByX(FilterMirror(W, T, 0))

\* ------------------------------------------------------------ _find_branches
\* Matches with "xdisp >= connect_segs" for "xdisp > connect_segs"
Matches_ge(tr, p, cs) ==
    /\ ~(p.x - tr.xlim[2] >= cs)
    /\ \/ Abs(tr.ylim[1] - p.y) <= cs
       \/ Abs(p.y - tr.ylim[2]) <= cs
       \/ (tr.ylim[1] <= p.y /\ p.y <= tr.ylim[2])

\* a tracer matches a pair: neither of the two "continue" of the inner loop
Matches(tr, p, cs) ==
    /\ ~(p.x - tr.xlim[2] > cs)
    /\ \/ Abs(tr.ylim[1] - p.y) <= cs
       \/ Abs(p.y - tr.ylim[2]) <= cs
       \/ (tr.ylim[1] <= p.y /\ p.y <= tr.ylim[2])

\* the inner loop over the tracers; best = <<largest_match_id, largest_match_len>>
\* (id 0 is the code's -1).  On a match longer than largest_match_len the code
\* stores len(tracer[0]), the width of the tracer's first pair.
RECURSIVE LargestMatch(_, _, _, _, _)
LargestMatch(trs, p, cs, i, best) ==
    IF i > Len(trs) THEN best
    ELSE IF Matches(trs[i], p, cs) /\ Len(trs[i].pts) > best[2]
         THEN LargestMatch(trs, p, cs, i + 1, << i, PairWidth >>)
         ELSE LargestMatch(trs, p, cs, i + 1, best)

\* the else branch: extend the matched tracer by the pair
ExtendTracer(tr, p) ==
    LET yhi == IF p.y > tr.ylim[2] THEN p.y ELSE tr.ylim[2]
        ylo == IF p.y < tr.ylim[1] THEN p.y ELSE tr.ylim[1]
    IN  [pts |-> Append(tr.pts, p), xlim |-> << tr.xlim[1], p.x >>,
         ylim |-> << ylo, yhi >>]

AddPair(trs, p, cs) ==
    LET best == LargestMatch(trs, p, cs, 1, << 0, 0 >>)
    IN  IF best[2] = 0
        THEN Append(trs, [pts |-> << p >>, xlim |-> << p.x, p.x >>,
                          ylim |-> << p.y, p.y >>])
        ELSE [trs EXCEPT ![best[1]] = ExtendTracer(@, p)]

\* the loop "for pair in pairs"
RECURSIVE BuildTracersFrom(_, _, _, _)
BuildTracersFrom(ps, k, trs, cs) ==
    IF k > Len(ps) THEN trs
    ELSE BuildTracersFrom(ps, k + 1, AddPair(trs, ps[k], cs), cs)

build_tracers(ps, cs) == BuildTracersFrom(ps, 1, << >>, cs)

\* the promotion test of a tracer: wrdens >= min_writhe_density, with
\* wr = 2 * sum over the box and l_plec = max(x span, y span) * disc_len
Promoted(W, T, tr) ==
    LET wr == 2 * NpSum(W, tr.xlim[1], tr.xlim[2] + 1, tr.ylim[1], tr.ylim[2] + 1)
        segs == maxint(tr.xlim[2] - tr.xlim[1] + 1, tr.ylim[2] - tr.ylim[1] + 1)
    IN  ~(wr < T * segs)

BranchOf(tr) ==
    [x1 |-> tr.xlim[1], x2 |-> tr.xlim[2], y1 |-> tr.ylim[1], y2 |-> tr.ylim[2]]

\* jelems[np.argmax(jelems[:, 3]), 1]: the y of the first pair of largest
\* weight among the tracer's pairs at x
RECURSIVE HeaviestAt(_, _, _, _)
HeaviestAt(pts, x, k, best) ==
    IF k > Len(pts) THEN best
    ELSE IF pts[k].x = x /\ (best = 0 \/ pts[k].w > pts[best].w)
         THEN HeaviestAt(pts, x, k + 1, k)
         ELSE HeaviestAt(pts, x, k + 1, best)

\* column 1 of the tracer band before interpolation (-1 marks a gap)
BandRaw(tr, j) ==
    LET Nelem == tr.xlim[2] - tr.xlim[1]
        h == HeaviestAt(tr.pts, tr.xlim[1] + j, 1, 0)
    IN  IF h = 0
        THEN IF j = 0 THEN tr.ylim[2]
             ELSE IF j = Nelem THEN tr.ylim[1] ELSE -1
        ELSE tr.pts[h].y

\* one point of the band: << x, numerator of y, denominator of y >>; a gap is
\* filled by v1 + ip * (v2 - v1) / num between the nearest set neighbours
BandPoint(tr, j) ==
    LET Nelem == tr.xlim[2] - tr.xlim[1]
        set == {k \in 0 .. Nelem : BandRaw(tr, k) # -1}
    IN  IF j \in set THEN << tr.xlim[1] + j, BandRaw(tr, j), 1 >>
        ELSE LET lo == CHOOSE k \in set : k < j /\ \A m \in set : m < j => m <= k
                 hi == CHOOSE k \in set : k > j /\ \A m \in set : m > j => m >= k
                 v1 == BandRaw(tr, lo)
                 v2 == BandRaw(tr, hi)
             IN  << tr.xlim[1] + j, v1 * (hi - lo) + (j - lo) * (v2 - v1), hi - lo >>

TracerBand(tr) ==
    [k \in 1 .. (tr.xlim[2] - tr.xlim[1] + 1) |-> BandPoint(tr, k - 1)]

\* the loop over the tracers: << branches, branchtracers >>
RECURSIVE ClassifyFrom(_, _, _, _)
ClassifyFrom(W, T, trs, k) ==
    IF k > Len(trs) THEN << << >>, << >> >>
    ELSE LET rest == ClassifyFrom(W, T, trs, k + 1)
         IN  IF Promoted(W, T, trs[k])
             THEN << << BranchOf(trs[k]) >> \o rest[1],
                     << TracerBand(trs[k]) >> \o rest[2] >>
             ELSE rest

find_branches(W, T, cs) == ClassifyFrom(W, T, build_tracers(find_pairs(W, T), cs), 1)

\* ----------------------------------------------------- _remove_branch_overlap
\* remove_branchpair_overlap with "wra > wrb" for "wra >= wrb"
remove_branchpair_overlap_gt(W, xlim1, xlim2, lim1, lim2) ==
    IF lim1[2] < lim2[1] \/ lim2[2] < lim1[1] THEN << lim1, lim2 >>
    ELSE
    LET case1 == lim1[1] <= lim2[2] /\ lim2[2] <= lim1[2] /\ lim2[1] <= lim1[1]
        case2 == lim2[1] <= lim1[2] /\ lim1[2] <= lim2[2] /\ lim1[1] <= lim2[1]
        case3 == lim2[2] < lim1[2] /\ lim2[1] > lim1[1]
        case4 == lim1[2] < lim2[2] /\ lim1[1] > lim2[1]
        aIsFirst == IF case4 THEN FALSE ELSE IF case3 THEN TRUE
                    ELSE IF case2 THEN FALSE ELSE TRUE
        rev == case2 \/ case4
        scenario == IF case3 \/ case4 THEN 2 ELSE IF case1 \/ case2 THEN 1 ELSE 0
        xlima == IF aIsFirst THEN xlim1 ELSE xlim2
        ylima == IF aIsFirst THEN lim1 ELSE lim2
        xlimb == IF aIsFirst THEN xlim2 ELSE xlim1
        ylimb == IF aIsFirst THEN lim2 ELSE lim1
        a == ylima[1]
        b == ylimb[2]
        out ==
            IF scenario = 1
            THEN LET wra == NpSum(W, xlima[1], xlima[2] + 1, a, b + 1)
                     wrb == NpSum(W, xlimb[1], xlimb[2] + 1, a, b + 1)
                 IN  IF wra > wrb
                     THEN << ylima, << ylimb[1], a - 1 >> >>
                     ELSE << << b + 1, ylima[2] >>, ylimb >>
            ELSE LET wra == cal_branch_writhe(W, xlima[1], xlima[2], ylima[1], ylima[2])
                     wrb == cal_branch_writhe(W, xlimb[1], xlimb[2], ylimb[1], ylimb[2])
                 IN  IF wra > wrb
                     THEN << ylima, << ylimb[1], ylimb[1] - 1 >> >>
                     ELSE << << ylima[1], ylima[1] - 1 >>, ylimb >>
    IN  IF rev THEN << out[2], out[1] >> ELSE out

\* One overlap test of two index intervals lim1, lim2 (pairs << low, high >>);
\* xlim1, xlim2 are the other sides of the two rectangles.  The result is
\* << lim1, lim2 >> after the truncation.  The four "case" tests are four
\* successive ifs, so a later match overrides an earlier one and rev, once set,
\* stays set.  When the intervals are not apart at least one case matches.
remove_branchpair_overlap(W, xlim1, xlim2, lim1, lim2) ==
    IF lim1[2] < lim2[1] \/ lim2[2] < lim1[1] THEN << lim1, lim2 >>
    ELSE
    LET case1 == lim1[1] <= lim2[2] /\ lim2[2] <= lim1[2] /\ lim2[1] <= lim1[1]
        case2 == lim2[1] <= lim1[2] /\ lim1[2] <= lim2[2] /\ lim1[1] <= lim2[1]
        case3 == lim2[2] < lim1[2] /\ lim2[1] > lim1[1]
        case4 == lim1[2] < lim2[2] /\ lim1[1] > lim2[1]
        aIsFirst == IF case4 THEN FALSE ELSE IF case3 THEN TRUE
                    ELSE IF case2 THEN FALSE ELSE TRUE
        rev == case2 \/ case4
        scenario == IF case3 \/ case4 THEN 2 ELSE IF case1 \/ case2 THEN 1 ELSE 0
        xlima == IF aIsFirst THEN xlim1 ELSE xlim2
        ylima == IF aIsFirst THEN lim1 ELSE lim2
        xlimb == IF aIsFirst THEN xlim2 ELSE xlim1
        ylimb == IF aIsFirst THEN lim2 ELSE lim1
        a == ylima[1]
        b == ylimb[2]
        out ==
            IF scenario = 1
            THEN LET wra == NpSum(W, xlima[1], xlima[2] + 1, a, b + 1)
                     wrb == NpSum(W, xlimb[1], xlimb[2] + 1, a, b + 1)
                 IN  IF wra >= wrb
                     THEN << ylima, << ylimb[1], a - 1 >> >>
                     ELSE << << b + 1, ylima[2] >>, ylimb >>
            ELSE LET wra == cal_branch_writhe(W, xlima[1], xlima[2], ylima[1], ylima[2])
                     wrb == cal_branch_writhe(W, xlimb[1], xlimb[2], ylimb[1], ylimb[2])
                 IN  IF wra >= wrb
                     THEN << ylima, << ylimb[1], ylimb[1] - 1 >> >>
                     ELSE << << ylima[1], ylima[1] - 1 >>, ylimb >>
    IN  IF rev THEN << out[2], out[1] >> ELSE out

\* the body of the inner loop for the branches bi (first) and bj (second):
\* the four calls of lines 462-465, each on the limits the calls before it
\* left; r1..r4 are the results << lim1, lim2 >> of the four calls.
\* after the fourth call: rows 0:2 and 2:4 of the two branches
ResolvePair4(r2, r3, r4) ==
    << [x1 |-> r4[1][1], x2 |-> r4[1][2], y1 |-> r3[1][1], y2 |-> r3[1][2]],
       [x1 |-> r4[2][1], x2 |-> r4[2][2], y1 |-> r2[2][1], y2 |-> r2[2][2]] >>

\* xlim1, xlim2 = _remove_branchpair_overlap(WM, ylim1, ylim2, xlim1, xlim2)
ResolvePair3(W, r2, r3) ==
    ResolvePair4(r2, r3, remove_branchpair_overlap(W, r3[1], r2[2], r2[1], r3[2]))

\* ylim1, xlim2 = _remove_branchpair_overlap(WM, xlim1, ylim2, ylim1, xlim2)
ResolvePair2(W, bj, r1, r2) ==
    ResolvePair3(W, r2,
                 remove_branchpair_overlap(W, r2[1], r2[2], r1[1], << bj.x1, bj.x2 >>))

\* xlim1, ylim2 = _remove_branchpair_overlap(WM, ylim1, xlim2, xlim1, ylim2)
ResolvePair1(W, bi, bj, r1) ==
    ResolvePair2(W, bj, r1,
                 remove_branchpair_overlap(W, r1[1], << bj.x1, bj.x2 >>,
                                           << bi.x1, bi.x2 >>, r1[2]))

\* ylim1, ylim2 = _remove_branchpair_overlap(WM, xlim1, xlim2, ylim1, ylim2)
ResolvePair(W, bi, bj) ==
    ResolvePair1(W, bi, bj,
                 remove_branchpair_overlap(W, << bi.x1, bi.x2 >>, << bj.x1, bj.x2 >>,
                                           << bi.y1, bi.y2 >>, << bj.y1, bj.y2 >>))

\* for j in range(i + 1, len(branches)), positions counted from 1
RECURSIVE OverlapInner(_, _, _, _)
OverlapInner(W, bs, i, j) ==
    IF j > Len(bs) THEN bs
    ELSE IF bs[j].y2 < bs[j].y1 THEN OverlapInner(W, bs, i, j + 1)
    ELSE LET r == ResolvePair(W, bs[i], bs[j])
         IN  OverlapInner(W, [bs EXCEPT ![i] = r[1], ![j] = r[2]], i, j + 1)

\* for i in range(len(branches) - 1)
RECURSIVE OverlapOuter(_, _, _)
OverlapOuter(W, bs, i) ==
    IF i > Len(bs) - 1 THEN bs
    ELSE IF bs[i].y2 < bs[i].y1 THEN OverlapOuter(W, bs, i + 1)
    ELSE OverlapOuter(W, OverlapInner(W, bs, i, i + 1), i + 1)

\* the closing loop: a branch with an empty interval gets x1 = -1
\* FlagInvalid with the test of the y-interval only
FlagInvalid_y(bs) ==
    [k \in 1 .. Len(bs) |->
        IF bs[k].y1 > bs[k].y2 THEN [bs[k] EXCEPT !.x1 = -1] ELSE bs[k]]

FlagInvalid(bs) ==
    [k \in 1 .. Len(bs) |->
        IF bs[k].y1 > bs[k].y2 \/ bs[k].x1 > bs[k].x2
        THEN [bs[k] EXCEPT !.x1 = -1] ELSE bs[k]]

remove_branch_overlap(W, bs) == FlagInvalid(OverlapOuter(W, bs, 1))

\* ---------------------------------------------------- _remove_flagged_branches
\* the positions (from 1) of the branches that are not flagged, in order
RECURSIVE LivePositions(_, _)
LivePositions(bs, k) ==
    IF k > Len(bs) THEN << >>
    ELSE (IF bs[k].x1 # -1 THEN << k >> ELSE << >>) \o LivePositions(bs, k + 1)

\* nbranches (list = bs) or ntracers (list = the parallel tracers)
remove_flagged_branches(bs, list) ==
    LET keep == LivePositions(bs, 1)
    IN  [k \in 1 .. Len(keep) |-> list[keep[k]]]

\* ----------------------------------------------- _resolve_inconsistent_branches
\* branch j (live) conflicts with branch i: i starts strictly inside
\* [x1(j), y2(j)] and is not downstream of it
Conflicts(bs, i, j) ==
    /\ bs[j].x1 # -1
    /\ bs[j].x1 < bs[i].x1 /\ bs[i].x1 < bs[j].y2
    /\ ~is_downstream(bs[j].x1, bs[j].y2, bs[i].x1, bs[i].y2)

\* conflict_ids of branch i, as positions from 1, ascending
RECURSIVE ConflictIds(_, _, _)
ConflictIds(bs, i, j) ==
    IF j >= i THEN << >>
    ELSE (IF Conflicts(bs, i, j) THEN << j >> ELSE << >>) \o ConflictIds(bs, i, j + 1)

RECURSIVE SumWrithe(_, _, _)
SumWrithe(W, bs, ids) ==
    IF ids = << >> THEN 0
    ELSE BranchWrithe(W, bs[Head(ids)]) + SumWrithe(W, bs, Tail(ids))

\* ResolveStep with the sentinel written to x2 instead of x1
ResolveStep_x2(W, bs, i) ==
    LET ids == ConflictIds(bs, i, 1)
        conflict_wr == SumWrithe(W, bs, ids)
        ref_wr == BranchWrithe(W, bs[i])
        hit == {ids[k] : k \in 1 .. Len(ids)}
    IN  IF conflict_wr > 0
        THEN IF ref_wr > conflict_wr
             THEN [k \in 1 .. Len(bs) |->
                      IF k \in hit THEN [bs[k] EXCEPT !.x2 = -1] ELSE bs[k]]
             ELSE [bs EXCEPT ![i] = [@ EXCEPT !.x2 = -1]]
        ELSE bs

\* one pass of the loop "for i in range(1, n)" for the branch at position i
ResolveStep(W, bs, i) ==
    LET ids == ConflictIds(bs, i, 1)
        conflict_wr == SumWrithe(W, bs, ids)
        ref_wr == BranchWrithe(W, bs[i])
        hit == {ids[k] : k \in 1 .. Len(ids)}
    IN  IF conflict_wr > 0
        THEN IF ref_wr > conflict_wr
             THEN [k \in 1 .. Len(bs) |->
                      IF k \in hit THEN [bs[k] EXCEPT !.x1 = -1] ELSE bs[k]]
             ELSE [bs EXCEPT ![i] = [@ EXCEPT !.x1 = -1]]
        ELSE bs

RECURSIVE ResolveFrom(_, _, _)
ResolveFrom(W, bs, i) ==
    IF i > Len(bs) THEN bs ELSE ResolveFrom(W, ResolveStep(W, bs, i), i + 1)

resolve_inconsistent_branches(W, bs) == ResolveFrom(W, bs, 2)

\* ----------------------------------------------------------- _combine_branches
\* wr / num_segs > minwr_per_seg.  num_segs = 0 is a numpy float division by
\* zero (inf, -inf or nan, no exception), so the test is then wr > 0.
can_connect_downstream_branches(a1, a2, b1, b2, W, T) ==
    IF ~is_downstream(a1, a2, b1, b2) THEN FALSE
    ELSE LET wr == NpSum(W, a1, b1, b2 + 1, a2 + 1)
                    + NpSum(W, a1, b1, 0, b2 + 1)
                    + NpSum(W, b1, N, b2 + 1, a2 + 1)
             num_segs == maxint(b1 - a1, a2 - b2)
         IN  IF num_segs = 0 THEN wr > 0 ELSE wr > T * num_segs

\* plec[X2] = max(...), plec[Y1] = min(...)
Widen(plec, br) ==
    [plec EXCEPT !.x2 = maxint(plec.x2, br.x2), !.y1 = minint(plec.y1, br.y1)]

\* Absorb in which "plec = branches[i]" replaces the composite in the list
Absorb_replace(W, T, plec, br) ==
    IF is_downstream(plec.x2, plec.y1, br.x1, br.y2)
    THEN IF can_connect_downstream_branches(plec.x1, plec.y2, br.x1, br.y2, W, T)
         THEN Widen(plec, br)
         ELSE IF BranchWrithe(W, br) > BranchWrithe(W, plec) THEN br ELSE plec
    ELSE Widen(plec, br)

\* the body of "if _is_downstream(a1, a2, p1, p2)" for composite plec and
\* branch br.  In the last else the code assigns branches[i] to its loop
\* variable plec, which leaves the list combbranch as it is.
Absorb(W, T, plec, br) ==
    IF is_downstream(plec.x2, plec.y1, br.x1, br.y2)
    THEN IF can_connect_downstream_branches(plec.x1, plec.y2, br.x1, br.y2, W, T)
         THEN Widen(plec, br)
         ELSE plec
    ELSE Widen(plec, br)

\* the position (from 1) of the first composite that branch br is downstream
\* of, 0 when there is none (new_plec stays True)
RECURSIVE FirstHost(_, _, _)
FirstHost(cb, br, j) ==
    IF j > Len(cb) THEN 0
    ELSE IF is_downstream(cb[j].x1, cb[j].y2, br.x1, br.y2) THEN j
    ELSE FirstHost(cb, br, j + 1)

\* CombineStep without "new_plec = False": a branch taken into a composite
\* also starts a composite of its own
CombineStep_new(W, T, bs, st, i) ==
    LET j == FirstHost(st[1], bs[i], 1)
    IN  IF j = 0
        THEN << Append(st[1], bs[i]), Append(st[2], << i - 1 >>) >>
        ELSE << Append([st[1] EXCEPT ![j] = Absorb(W, T, @, bs[i])], bs[i]),
                Append([st[2] EXCEPT ![j] = Append(@, i - 1)], << i - 1 >>) >>

\* one pass of the loop over the branches; st = << combbranch,
\* contained_branch_ids >>, i the position (from 1) of the branch, whose id in
\* the code is i - 1
CombineStep(W, T, bs, st, i) ==
    LET j == FirstHost(st[1], bs[i], 1)
    IN  IF j = 0
        THEN << Append(st[1], bs[i]), Append(st[2], << i - 1 >>) >>
        ELSE << [st[1] EXCEPT ![j] = Absorb(W, T, @, bs[i])],
                [st[2] EXCEPT ![j] = Append(@, i - 1)] >>

RECURSIVE CombineFrom(_, _, _, _, _)
CombineFrom(W, T, bs, st, i) ==
    IF i > Len(bs) THEN st
    ELSE CombineFrom(W, T, bs, CombineStep(W, T, bs, st, i), i + 1)

combine_branches(W, bs, T) == CombineFrom(W, T, bs, << << >>, << >> >>, 1)

\* --------------------------------------------------------------- _define_plecs
\* candidate_plec = [combbranch[0], combbranch[3], combbranch[0], combbranch[3]]
Candidate(c) == [x1 |-> c.x1, x2 |-> c.y2, y1 |-> c.x1, y2 |-> c.y2]

\* the record of candidate c at list index i (from 0), or no record.  wrdens is
\* kept as the pair << wr, num_segs >>: it is (2 pi/om0) * wr / (num_segs * disc_len)
PlecOf(W, T, M, c, i) ==
    LET wr == BranchWrithe(W, c)
        num_segs == c.x2 - c.x1 + 1
    IN  IF num_segs <= 0 THEN << >>
        ELSE IF wr >= T * num_segs /\ wr >= M
             THEN << [id1 |-> c.x1, id2 |-> c.x2, wrdens |-> << wr, num_segs >>,
                      wr |-> wr, num_segs |-> num_segs, wr_tot |-> Total(W),
                      comp |-> i] >>
             ELSE << >>

RECURSIVE PlecsFrom(_, _, _, _, _)
PlecsFrom(W, T, M, cands, k) ==
    IF k > Len(cands) THEN << >>
    ELSE PlecOf(W, T, M, cands[k], k - 1) \o PlecsFrom(W, T, M, cands, k + 1)

define_plecs(W, combs, T, M) ==
    LET candidate_plecs ==
            remove_branch_overlap(W, [k \in 1 .. Len(combs) |-> Candidate(combs[k])])
    IN  PlecsFrom(W, T, M, candidate_plecs, 1)

\* ------------------------------------------------------------------ find_plecs
\* [x for sublist in lists for x in sublist]
RECURSIVE Flatten(_)
Flatten(lists) ==
    IF lists = << >> THEN << >> ELSE Head(lists) \o Flatten(Tail(lists))

\* plec_branch_ids = [contained_branch_ids[int(plec[6])] for plec in plecs]
PlecBranchIds(ps, ids) == [k \in 1 .. Len(ps) |-> ids[ps[k].comp + 1]]

\* [list[item] for sublist in plec_branch_ids for item in sublist]
Selected(list, pids) ==
    LET flat == Flatten(pids)
    IN  [k \in 1 .. Len(flat) |-> list[flat[k] + 1]]

PlecDict(plec, ids) ==
    [id1 |-> plec.id1, id2 |-> plec.id2, wrdens |-> plec.wrdens, wr |-> plec.wr,
     num_segs |-> plec.num_segs, L |-> plec.num_segs, branch_ids |-> ids]

\* the branch dictionary at list index i (from 0); its writhes are taken from
\* WM, not from pWM
BranchDict(W, b, i) ==
    [id |-> i, x1 |-> b.x1, x2 |-> b.x2, y1 |-> b.y1, y2 |-> b.y2,
     wr |-> 2 * BranchWrithe(W, b),
     wr_down |-> cal_branch_writhe(W, b.x1, b.y2, b.x1, b.y2)]

TracerDict(t, i) == [id |-> i, points |-> t]

Topology(W, ps, pids, bs, trs, no_overlap) ==
    [N |-> N,
     plecs |-> [k \in 1 .. Len(ps) |-> PlecDict(ps[k], pids[k])],
     branches |-> [k \in 1 .. Len(bs) |-> BranchDict(W, bs[k], k - 1)],
     tracers |-> [k \in 1 .. Len(bs) |-> TracerDict(trs[k], k - 1)],
     wr |-> Total(W),
     num_plecs |-> Len(ps),
     num_branches |-> Len(bs),
     num_tracers |-> Len(bs),
     no_overlap |-> no_overlap]

\* ---------------------------------------------------------------- the inputs
UpperPos == {p \in Interior \X Interior : p[1] < p[2]}

Supports == {S \in SUBSET UpperPos : Cardinality(S) <= MaxNonZero}

\* a symmetric matrix with a zero diagonal, as the writhe map of a
\* configuration is, with the entries f at the positions S and their mirror
\* images
RawMatrix(S, f) ==
    [i \in Idx |-> [j \in Idx |->
        IF << i, j >> \in S THEN f[<< i, j >>]
        ELSE IF << j, i >> \in S THEN f[<< j, i >>] ELSE 0]]

Matrices == UNION {{calculate_WM(RawMatrix(S, f)) : f \in [S -> Vals]} : S \in Supports}

Params == [T : TVals, M : MVals, cs : CsVals, no_overlap : BOOLEAN]

\* ------------------------------------------------------------ the state machine
\* find_plecs has computed WM and pWM and is about to call _find_branches
Init ==
    /\ WM \in Matrices
    /\ pwm = pWM(WM)
    /\ par \in Params
    /\ pc = "start"
    /\ pairs = << >>
    /\ rawtr = << >>
    /\ tracers = << >>
    /\ branches = << >>
    /\ classified = << >>
    /\ pre = << >>
    /\ comb = << >>
    /\ contained = << >>
    /\ plecs = << >>
    /\ plec_branch_ids = << >>
    /\ topol = << >>
    /\ called = {}

\* _find_branches, first part: pairs = _find_pairs(WM, minwr_per_seg)
FindPairs ==
    /\ pc = "start"
    /\ pairs' = find_pairs(pwm, par.T)
    /\ pc' = "pairs"
    /\ called' = called \cup {"find_pairs"}
    /\ UNCHANGED << WM, pwm, par, rawtr, tracers, branches, classified, pre, comb,
                    contained, plecs, plec_branch_ids, topol >>

\* _find_branches, second part: combine pairs into tracers
BuildTracers ==
    /\ pc = "pairs"
    /\ rawtr' = build_tracers(pairs, par.cs)
    /\ pc' = "tracers"
    /\ called' = called \cup {"build_tracers"}
    /\ UNCHANGED << WM, pwm, par, pairs, tracers, branches, classified, pre, comb,
                    contained, plecs, plec_branch_ids, topol >>

\* _find_branches, third part: promote tracers to branches, and return
Classify ==
    /\ pc = "tracers"
    /\ LET r == ClassifyFrom(pwm, par.T, rawtr, 1)
       IN  /\ branches' = r[1]
           /\ classified' = r[1]
           /\ tracers' = r[2]
    /\ pre' = << >>
    /\ pc' = "found"
    /\ called' = called \cup {"classify"}
    /\ UNCHANGED << WM, pwm, par, pairs, rawtr, comb, contained, plecs,
                    plec_branch_ids, topol >>

\* RemoveOverlap without the test of no_overlap
RemoveOverlap_always ==
    /\ pc = "found"
    /\ Len(branches) > 0
    /\ pre' = branches
    /\ branches' = remove_branch_overlap(pwm, branches)
    /\ pc' = "overlap"
    /\ called' = called \cup {"remove_branch_overlap"}
    /\ UNCHANGED << WM, pwm, par, pairs, rawtr, tracers, classified, comb, contained,
                    plecs, plec_branch_ids, topol >>

\* if no_overlap: branches = _remove_branch_overlap(pWM, branches)
RemoveOverlap ==
    /\ pc = "found"
    /\ Len(branches) > 0
    /\ par.no_overlap
    /\ pre' = branches
    /\ branches' = remove_branch_overlap(pwm, branches)
    /\ pc' = "overlap"
    /\ called' = called \cup {"remove_branch_overlap"}
    /\ UNCHANGED << WM, pwm, par, pairs, rawtr, tracers, classified, comb, contained,
                    plecs, plec_branch_ids, topol >>

\* branches, tracers = _remove_flagged_branches(branches, tracers), after the
\* overlap removal
RemoveFlaggedOverlap ==
    /\ pc = "overlap"
    /\ pre' = branches
    /\ branches' = remove_flagged_branches(branches, branches)
    /\ tracers' = remove_flagged_branches(branches, tracers)
    /\ pc' = "conflicts"
    /\ UNCHANGED << WM, pwm, par, pairs, rawtr, classified, comb, contained, plecs,
                    plec_branch_ids, topol, called >>

\* branches = _resolve_inconsistent_branches(pWM, branches): reached with or
\* without the overlap removal before it
ResolveInconsistent ==
    /\ \/ pc = "conflicts"
       \/ pc = "found" /\ Len(branches) > 0 /\ ~par.no_overlap
    /\ pre' = branches
    /\ branches' = resolve_inconsistent_branches(pwm, branches)
    /\ pc' = "resolved"
    /\ called' = called \cup {"resolve_inconsistent_branches"}
    /\ UNCHANGED << WM, pwm, par, pairs, rawtr, tracers, classified, comb, contained,
                    plecs, plec_branch_ids, topol >>

\* branches, tracers = _remove_flagged_branches(branches, tracers), after the
\* conflict resolution
RemoveFlaggedConflicts ==
    /\ pc = "resolved"
    /\ pre' = branches
    /\ branches' = remove_flagged_branches(branches, branches)
    /\ tracers' = remove_flagged_branches(branches, tracers)
    /\ pc' = "combine"
    /\ UNCHANGED << WM, pwm, par, pairs, rawtr, classified, comb, contained, plecs,
                    plec_branch_ids, topol, called >>

\* combbranches, contained_branch_ids = _combine_branches(...)
Combine ==
    /\ pc = "combine"
    /\ LET r == combine_branches(pwm, branches, par.T)
       IN  /\ comb' = r[1]
           /\ contained' = r[2]
    /\ pc' = "define"
    /\ called' = called \cup {"combine_branches"}
    /\ UNCHANGED << WM, pwm, par, pairs, rawtr, tracers, branches, classified, pre,
                    plecs, plec_branch_ids, topol >>

\* plecs = _define_plecs(...)
DefinePlecs ==
    /\ pc = "define"
    /\ plecs' = define_plecs(pwm, comb, par.T, par.M)
    /\ pc' = "select"
    /\ called' = called \cup {"define_plecs"}
    /\ UNCHANGED << WM, pwm, par, pairs, rawtr, tracers, branches, classified, pre,
                    comb, contained, plec_branch_ids, topol >>

\* plec_branch_ids and the branches and tracers of the plectonemes
SelectBranches ==
    /\ pc = "select"
    /\ LET pids == PlecBranchIds(plecs, contained)
       IN  /\ plec_branch_ids' = pids
           /\ branches' = Selected(branches, pids)
           /\ tracers' = Selected(tracers, pids)
    /\ pre' = branches
    /\ pc' = "assemble"
    /\ UNCHANGED << WM, pwm, par, pairs, rawtr, classified, comb, contained, plecs,
                    topol, called >>

\* the else of "if len(branches) > 0": empty lists are initialized
NoBranches ==
    /\ pc = "found"
    /\ Len(branches) = 0
    /\ plecs' = << >>
    /\ plec_branch_ids' = << >>
    /\ pc' = "assemble"
    /\ UNCHANGED << WM, pwm, par, pairs, rawtr, tracers, branches, classified, pre,
                    comb, contained, topol, called >>

\* the topology dictionary is assigned and returned (unify_branch_pieces false)
Assemble ==
    /\ pc = "assemble"
    /\ topol' = Topology(WM, plecs, plec_branch_ids, branches, tracers, par.no_overlap)
    /\ pc' = "done"
    /\ UNCHANGED << WM, pwm, par, pairs, rawtr, tracers, branches, classified, pre,
                    comb, contained, plecs, plec_branch_ids, called >>

Next ==
    \/ FindPairs
    \/ BuildTracers
    \/ Classify
    \/ RemoveOverlap
    \/ RemoveFlaggedOverlap
    \/ ResolveInconsistent
    \/ RemoveFlaggedConflicts
    \/ Combine
    \/ DefinePlecs
    \/ SelectBranches
    \/ NoBranches
    \/ Assemble

Spec == Init /\ [][Next]_vars

\* --------------------------------------------- the overlap resolver on its own
\* Inputs of _remove_branch_overlap as a function: any matrix of the family
\* with at most MaxFnNonZero entries, and any list of at most MaxBranches valid
\* branches (x1 <= x2, y1 <= y2) inside the matrix.
FnMatrices ==
    UNION {{calculate_WM(RawMatrix(S, f)) : f \in [S -> Vals]} :
              S \in {S0 \in SUBSET UpperPos : Cardinality(S0) <= MaxFnNonZero}}

ValidBranches ==
    {b \in [x1 : Interior, x2 : Interior, y1 : Interior, y2 : Interior] :
        b.x1 <= b.x2 /\ b.y1 <= b.y2}

BranchLists == UNION {[1 .. n -> ValidBranches] : n \in 0 .. MaxBranches}

FnInit ==
    /\ WM \in FnMatrices
    /\ pwm = WM
    /\ par = [T |-> 0, M |-> 0, cs |-> 0, no_overlap |-> TRUE]
    /\ pc = "fn"
    /\ branches \in BranchLists
    /\ classified = branches
    /\ pre = << >>
    /\ pairs = << >>
    /\ rawtr = << >>
    /\ tracers = << >>
    /\ comb = << >>
    /\ contained = << >>
    /\ plecs = << >>
    /\ plec_branch_ids = << >>
    /\ topol = << >>
    /\ called = {}

\* _remove_branch_overlap(WM, B)
FnOverlap ==
    /\ pc = "fn"
    /\ pre' = branches
    /\ branches' = remove_branch_overlap(pwm, branches)
    /\ pc' = "fn_overlap"
    /\ UNCHANGED << WM, pwm, par, pairs, rawtr, tracers, classified, comb, contained,
                    plecs, plec_branch_ids, topol, called >>

\* _remove_branch_overlap(WM, .) applied to the list the first call returned
FnOverlapAgain ==
    /\ pc = "fn_overlap"
    /\ pre' = branches
    /\ branches' = remove_branch_overlap(pwm, branches)
    /\ pc' = "fn_overlap2"
    /\ UNCHANGED << WM, pwm, par, pairs, rawtr, tracers, classified, comb, contained,
                    plecs, plec_branch_ids, topol, called >>

FnNext == FnOverlap \/ FnOverlapAgain

SpecFn == FnInit /\ [][FnNext]_vars

\* ------------------------------------------- the tracer construction on its own
\* Inputs of the loop "for pair in pairs" of _find_branches: any list of at
\* most MaxPairs pairs as _find_pairs returns them, each with x < y inside the
\* matrix, the list ascending in x.
PairInputs ==
    {[x |-> q[1], y |-> q[2], summed |-> 1, w |-> 2, flag |-> 1] : q \in UpperPos}

PairLists ==
    {ps \in UNION {[1 .. n -> PairInputs] : n \in 0 .. MaxPairs} :
        \A k \in 1 .. (Len(ps) - 1) : ps[k].x <= ps[k + 1].x}

TrInit ==
    /\ WM = calculate_WM([i \in Idx |-> [j \in Idx |-> 0]])
    /\ pwm = WM
    /\ par \in {q \in Params : q.T = 0 /\ q.M = 0 /\ q.no_overlap}
    /\ pc = "tr"
    /\ pairs \in PairLists
    /\ rawtr = << >>
    /\ tracers = << >>
    /\ branches = << >>
    /\ classified = << >>
    /\ pre = << >>
    /\ comb = << >>
    /\ contained = << >>
    /\ plecs = << >>
    /\ plec_branch_ids = << >>
    /\ topol = << >>
    /\ called = {}

\* the loop "for pair in pairs" on the drawn list
TrBuild ==
    /\ pc = "tr"
    /\ rawtr' = build_tracers(pairs, par.cs)
    /\ pc' = "tr_built"
    /\ UNCHANGED << WM, pwm, par, pairs, tracers, branches, classified, pre, comb,
                    contained, plecs, plec_branch_ids, topol, called >>

TrNext == TrBuild

SpecTr == TrInit /\ [][TrNext]_vars

\* ==================================================================== claims
Live(bs) == {k \in 1 .. Len(bs) : bs[k].x1 # -1}

Range(q) == {q[k] : k \in 1 .. Len(q)}

InMatrix(k) == k \in Interior

BranchInside(b) == InMatrix(b.x1) /\ InMatrix(b.x2) /\ InMatrix(b.y1) /\ InMatrix(b.y2)

PairsInside == \A k \in 1 .. Len(pairs) : InMatrix(pairs[k].x) /\ InMatrix(pairs[k].y)

BranchesInside == \A k \in Live(branches) : BranchInside(branches[k])

CombInside == \A k \in 1 .. Len(comb) : BranchInside(comb[k])

PlecsInside == \A k \in 1 .. Len(plecs) : InMatrix(plecs[k].id1) /\ InMatrix(plecs[k].id2)

OutputInside ==
    pc = "done" =>
        /\ \A k \in 1 .. Len(topol.plecs) :
               InMatrix(topol.plecs[k].id1) /\ InMatrix(topol.plecs[k].id2)
        /\ \A k \in 1 .. Len(topol.branches) : BranchInside(topol.branches[k])

\* C1: boundary exclusion.  In every state of a run of find_plecs (thresholds
\* T >= 0, M >= 0, matrix with zero rows and columns 0 and N-1) every index of a
\* detected pair, of a live branch, of a composite, of a record returned by
\* _define_plecs and of a branch or plectoneme of the output lies in 1..N-2.
C1_BoundaryExclusion ==
    PairsInside /\ BranchesInside /\ CombInside /\ PlecsInside /\ OutputInside

\* C2: in the returned topology every k of a plectoneme's branch_ids is an
\* index of the returned branches and tracers lists, the entries there have
\* id k, and the branch there is one of the branches merged into the
\* plectoneme's composite (the returned branch at index k is the branch the
\* selection took from index Flatten(plec_branch_ids)[k] of the combined list).
C2_BranchIdsValid ==
    pc = "done" =>
        \A i \in 1 .. Len(topol.plecs) :
            \A k \in Range(topol.plecs[i].branch_ids) :
                /\ k + 1 \in 1 .. Len(topol.branches)
                /\ k + 1 \in 1 .. Len(topol.tracers)
                /\ topol.branches[k + 1].id = k
                /\ topol.tracers[k + 1].id = k
                /\ Flatten(plec_branch_ids)[k + 1] \in Range(contained[plecs[i].comp + 1])

\* the composite candidates after the re-applied overlap resolver
ResolvedCandidates ==
    remove_branch_overlap(pwm, [k \in 1 .. Len(comb) |-> Candidate(comb[k])])

\* the emission condition of the claim for candidate c
ShouldEmit(c) ==
    /\ c.x1 # -1
    /\ c.x2 - c.x1 + 1 > 0
    /\ BranchWrithe(pwm, c) >= par.T * (c.x2 - c.x1 + 1)
    /\ BranchWrithe(pwm, c) >= par.M

\* C3: _define_plecs returns a record for a composite candidate if and only
\* if the candidate survived the re-applied overlap resolver (is not flagged),
\* has positive length, density >= min_writhe_density and writhe >=
\* plec_min_writhe; no candidate has two records.
C3_EmitIff ==
    "define_plecs" \in called =>
        \A k \in 1 .. Len(comb) :
            /\ (\E m \in 1 .. Len(plecs) : plecs[m].comp = k - 1)
                   <=> ShouldEmit(ResolvedCandidates[k])
            /\ \A m, n \in 1 .. Len(plecs) :
                   plecs[m].comp = k - 1 /\ plecs[n].comp = k - 1 => m = n

\* C4: the index ranges [id1, id2] of two different records returned by
\* _define_plecs are disjoint.
C4_PlecsDisjoint ==
    \A k, m \in 1 .. Len(plecs) :
        k # m => (plecs[k].id2 < plecs[m].id1 \/ plecs[m].id2 < plecs[k].id1)

\* C5: the overlap resolver is idempotent: run on the list it returned for a
\* list of valid branches, it returns that list again.
C5_Idempotent == pc = "fn_overlap2" => branches = pre

\* the list bs with the sentinel x1 = -1 written to some of its branches, and
\* nothing else changed
OnlyFlagged(before, after) ==
    /\ Len(after) = Len(before)
    /\ \A k \in 1 .. Len(before) :
           after[k] = before[k] \/ after[k] = [before[k] EXCEPT !.x1 = -1]

\* C6 as stated: with no_overlap false the branches handed to
\* _combine_branches are the branches the classifier returned, unchanged.
C6_ClassifierBranchesCombined ==
    (pc = "combine" /\ ~par.no_overlap) => branches = classified

\* C6, amended: with no_overlap false _remove_branch_overlap is not called on
\* the branch list, and _resolve_inconsistent_branches is: it receives the
\* classifier's branches, and the branches handed to _combine_branches are the
\* classifier's branches without those the conflict resolution flagged.
C6_OnlyOverlapSkipped ==
    ~par.no_overlap =>
        /\ "remove_branch_overlap" \notin called
        /\ pc = "resolved" => pre = classified
        /\ pc = "combine" =>
               /\ "resolve_inconsistent_branches" \in called
               /\ OnlyFlagged(classified, pre)
               /\ branches = remove_flagged_branches(pre, pre)

C6_ConflictFlaggedWithoutOverlap ==
    pc = "combine" /\ ~par.no_overlap /\ branches # classified

\* no row sum of matrix W exceeds minwr_per_seg
NoRowExceeds(W) == \A i \in Idx : SumRow(W, i, 0, N) <= par.T

LaterStages ==
    {"remove_branch_overlap", "resolve_inconsistent_branches", "combine_branches",
     "define_plecs"}

EmptyResult ==
    /\ called \cap LaterStages = {}
    /\ pc = "done" =>
           /\ topol.num_branches = 0 /\ topol.num_plecs = 0 /\ topol.num_tracers = 0
           /\ topol.plecs = << >> /\ topol.branches = << >> /\ topol.tracers = << >>

\* C7 as stated, the matrix being the writhe matrix WM of the configuration: if
\* no row sum of WM exceeds minwr_per_seg the result is empty and no later
\* stage is called.
C7_EmptyCaseOfWM == NoRowExceeds(WM) => EmptyResult

\* C7, amended: if no row sum of pWM = sign(mean(WM)) * WM, the matrix the
\* pair detection reads, exceeds minwr_per_seg, then find_plecs returns
\* num_branches = num_plecs = num_tracers = 0 with empty plecs, branches and
\* tracers, and the overlap removal, the conflict resolution, the combination
\* and the plectoneme definition are not called.
C7_EmptyCase == NoRowExceeds(pwm) => EmptyResult

C7_EmptyOfNonzeroMatrix ==
    /\ pc = "done"
    /\ NoRowExceeds(pwm)
    /\ \E i, j \in Idx : pwm[i][j] > 0

\* the band pairing a..a+k with b-k..b
BandEntries(a, b, k) == {<< a + m, b - m >> : m \in 0 .. k}

BandRows(a, b, k) == (a .. (a + k)) \cup ((b - k) .. b)

AboveThreshold(W) == {p \in Idx \X Idx : p[1] < p[2] /\ W[p[1]][p[2]] > par.T}

\* the only entries of W above minwr_per_seg form the band, the sums of the
\* band's rows exceed minwr_per_seg and no other row's sum does
SingleBand(W, a, b, k) ==
    /\ a + k < b - k
    /\ AboveThreshold(W) = BandEntries(a, b, k)
    /\ \A i \in Idx : (SumRow(W, i, 0, N) > par.T) <=> (i \in BandRows(a, b, k))

Bands == {t \in Interior \X Interior \X (0 .. N) : t[1] + t[3] < t[2] - t[3]}

OneBranchOnePlec(a, b) ==
    /\ topol.num_branches = 1
    /\ topol.num_plecs = 1
    /\ topol.plecs[1].id1 = a
    /\ topol.plecs[1].id2 = b

\* the writhe of the span [a, b] clears both thresholds of _define_plecs
SpanClears(a, b) ==
    LET wr == NpSum(pwm, a, b + 1, a, b + 1)
    IN  wr >= par.M /\ wr >= par.T * (b - a + 1)

\* the band's pairs are chained into one tracer: connect_segs >= 1, or the
\* band is a single pair
Chained(k) == par.cs >= 1 \/ k = 0

Places(id) ==
    {q \in (1 .. Len(contained)) \X (1 .. Len(branches)) :
        q[2] <= Len(contained[q[1]]) /\ contained[q[1]][q[2]] = id}

\* C9: after _combine_branches every branch index 0..B-1 occurs at exactly one
\* place of the contained-id lists (in one composite, once), and the lists
\* hold nothing else.
C9_OneComposite ==
    pc \in {"define", "select"} =>
        /\ \A id \in 0 .. (Len(branches) - 1) : Cardinality(Places(id)) = 1
        /\ \A c \in 1 .. Len(contained) :
               /\ Len(contained[c]) <= Len(branches)
               /\ \A m \in 1 .. Len(contained[c]) :
                      contained[c][m] \in 0 .. (Len(branches) - 1)
        /\ Len(contained) = Len(comb)

C9_BranchJoinsComposite ==
    /\ pc = "define"
    /\ Len(contained) >= 2
    /\ \E c \in 1 .. Len(contained) : Len(contained[c]) >= 2

\* C10: _resolve_inconsistent_branches returns a list of the same length and
\* order in which the only writes are of the sentinel x1 = -1, so the live
\* branches after it are live branches before it, and the list left by
\* _remove_flagged_branches is not longer than the list before the resolution.
C10_OnlyFlags ==
    /\ pc = "resolved" =>
           /\ OnlyFlagged(pre, branches)
           /\ Live(branches) \subseteq Live(pre)
    /\ pc = "combine" =>
           /\ Len(branches) <= Len(pre)
           /\ \A k \in 1 .. Len(branches) : branches[k].x1 # -1

C10_ConflictFlagged ==
    /\ pc = "resolved"
    /\ branches # pre
    /\ Live(branches) # {}

\* the branch list of _resolve_inconsistent_branches when the loop
\* "for i in range(1, n)" reaches the branch at position i (from 1), for the
\* list bs the function was called with
RECURSIVE ListAtStep(_, _)
ListAtStep(bs, i) ==
    IF i <= 2 THEN bs ELSE ResolveStep(pwm, ListAtStep(bs, i - 1), i - 1)

\* the resolution rule of the claim for the step of branch i: b the list
\* before the step, a the list after it, ids the conflicting earlier branches
RuleApplied(b, a, i, ids) ==
    IF BranchWrithe(pwm, b[i]) > SumWrithe(pwm, b, ids)
    THEN /\ \A k \in 1 .. Len(ids) : a[ids[k]].x1 = -1
         /\ a[i].x1 # -1
    ELSE a[i].x1 = -1

RuleAtStep(b, i) == RuleApplied(b, ResolveStep(pwm, b, i), i, ConflictIds(b, i, 1))

\* C11: in _resolve_inconsistent_branches, at the step of every branch i that
\* has a conflicting earlier live branch: if the writhe of i exceeds the summed
\* writhe of the conflicting branches these are all flagged and i stays live,
\* and otherwise i is flagged.
C11_ConflictRule ==
    pc = "resolved" =>
        \A i \in 2 .. Len(pre) :
            ConflictIds(ListAtStep(pre, i), i, 1) # << >> => RuleAtStep(ListAtStep(pre, i), i)

\* << combbranch, contained_branch_ids >> of _combine_branches when the loop
\* over the branches reaches the branch at position i (from 1)
RECURSIVE CombAtStep(_, _)
CombAtStep(bs, i) ==
    IF i <= 1 THEN << << >>, << >> >>
    ELSE CombineStep(pwm, par.T, bs, CombAtStep(bs, i - 1), i - 1)

\* branch br meets composite plec in the case of the claim: br is downstream
\* of the composite and of its opposite corner, and the connectivity test fails
Unconnected(plec, br) ==
    /\ is_downstream(plec.x1, plec.y2, br.x1, br.y2)
    /\ is_downstream(plec.x2, plec.y1, br.x1, br.y2)
    /\ ~can_connect_downstream_branches(plec.x1, plec.y2, br.x1, br.y2, pwm, par.T)

\* the rectangle of higher writhe, the branch's when strictly larger
Heavier(plec, br) ==
    IF BranchWrithe(pwm, br) > BranchWrithe(pwm, plec) THEN br ELSE plec

\* the claim for the step of branch br on the composites cb: j the composite
\* the branch is taken into, after the composites after the step
RepresentativeKept(cb, br, j, after) ==
    (j # 0 /\ Unconnected(cb[j], br)) => after[j] = Heavier(cb[j], br)

RepresentativeAtStep(st, bs, i) ==
    RepresentativeKept(st[1], bs[i], FirstHost(st[1], bs[i], 1),
                       CombineStep(pwm, par.T, bs, st, i)[1])

\* C12: in _combine_branches, when branch i is downstream of a composite and
\* of the composite's opposite corner and the two cannot be connected, the
\* composite's rectangle after the step is the one of higher writhe of the
\* composite and branch i, the branch's when its writhe is strictly larger.
C12_HeavierRepresentative ==
    pc = "define" =>
        \A i \in 1 .. Len(branches) : RepresentativeAtStep(CombAtStep(branches, i), branches, i)

\* the tracers of _find_branches when the loop "for pair in pairs" reaches
\* the pair at position k (from 1)
RECURSIVE TracersAtStep(_, _)
TracersAtStep(ps, k) ==
    IF k <= 1 THEN << >> ELSE AddPair(TracersAtStep(ps, k - 1), ps[k - 1], par.cs)

\* the positions of the tracers of trs that match pair p
Matching(trs, p) == {i \in 1 .. Len(trs) : Matches(trs[i], p, par.cs)}

\* the first of the matching tracers with the most accumulated pairs
MostPairs(trs, p) ==
    CHOOSE i \in Matching(trs, p) :
        \A m \in Matching(trs, p) :
            \/ Len(trs[m].pts) < Len(trs[i].pts)
            \/ (Len(trs[m].pts) = Len(trs[i].pts) /\ i <= m)

\* the claim for pair p and the tracers trs it meets
AppendedToMostPairs(trs, p) ==
    Matching(trs, p) # {} =>
        AddPair(trs, p, par.cs) = [trs EXCEPT ![MostPairs(trs, p)] = ExtendTracer(@, p)]

\* C13: in the tracer construction of _find_branches a pair that several
\* tracers match is appended to the matching tracer with the most pairs, and
\* to the first of these in list order on a tie.
C13_MostPairsFirst ==
    pc \in {"tracers", "tr_built"} =>
        \A k \in 1 .. Len(pairs) : AppendedToMostPairs(TracersAtStep(pairs, k), pairs[k])

\* the arguments << xlim1, xlim2, lim1, lim2 >> of the four calls of
\* _remove_branchpair_overlap for the branches bi (first) and bj (second)
CallArgs(W, bi, bj) ==
    LET xi == << bi.x1, bi.x2 >>
        xj == << bj.x1, bj.x2 >>
        c1 == << xi, xj, << bi.y1, bi.y2 >>, << bj.y1, bj.y2 >> >>
        r1 == remove_branchpair_overlap(W, c1[1], c1[2], c1[3], c1[4])
        c2 == << r1[1], xj, xi, r1[2] >>
        r2 == remove_branchpair_overlap(W, c2[1], c2[2], c2[3], c2[4])
        c3 == << r2[1], r2[2], r1[1], xj >>
        r3 == remove_branchpair_overlap(W, c3[1], c3[2], c3[3], c3[4])
        c4 == << r3[1], r2[2], r2[1], r3[2] >>
    IN  << c1, c2, c3, c4 >>

\* the two intervals of call c overlap
Overlapping(c) == ~(c[3][2] < c[4][1] \/ c[4][2] < c[3][1])

\* the overlap is nested (cases 3 and 4) rather than partial (cases 1 and 2)
Nested(c) ==
    \/ (c[4][2] < c[3][2] /\ c[4][1] > c[3][1])
    \/ (c[3][2] < c[4][2] /\ c[3][1] > c[4][1])

\* the second interval is the one the code calls a: cases 2 and 4
SecondIsA(c) ==
    \/ (c[4][1] <= c[3][2] /\ c[3][2] <= c[4][2] /\ c[3][1] <= c[4][1] /\ ~Nested(c))
    \/ (c[3][2] < c[4][2] /\ c[3][1] > c[4][1])

\* the two writhes << of the first branch, of the second branch >> that call c
\* compares: over the overlap [a, b] in cases 1 and 2, over the rectangles in
\* cases 3 and 4
ComparedWrithes(W, c) ==
    IF Nested(c)
    THEN << cal_branch_writhe(W, c[1][1], c[1][2], c[3][1], c[3][2]),
            cal_branch_writhe(W, c[2][1], c[2][2], c[4][1], c[4][2]) >>
    ELSE LET a == IF SecondIsA(c) THEN c[4][1] ELSE c[3][1]
             b == IF SecondIsA(c) THEN c[3][2] ELSE c[4][2]
         IN  << NpSum(W, c[1][1], c[1][2] + 1, a, b + 1),
                NpSum(W, c[2][1], c[2][2] + 1, a, b + 1) >>

Tie(W, c) ==
    Overlapping(c) /\ ComparedWrithes(W, c)[1] = ComparedWrithes(W, c)[2]

Result(W, c) == remove_branchpair_overlap(W, c[1], c[2], c[3], c[4])

\* the interval old is cut down to new; cutting an empty interval down to
\* empty leaves it as it is
Truncated(old, new) == new # old \/ old[1] > old[2]

FirstKeeps(W, c) ==
    Result(W, c)[1] = c[3] /\ Truncated(c[4], Result(W, c)[2])

SecondKeeps(W, c) ==
    Result(W, c)[2] = c[4] /\ Truncated(c[3], Result(W, c)[1])

TwoBranches == pc = "fn" /\ Len(branches) = 2

\* C14 as stated: in every overlap test of equal writhes the first-listed
\* branch keeps its interval and the later-listed branch is truncated.
C14_FirstListedWins ==
    TwoBranches =>
        \A n \in 1 .. 4 :
            Tie(pwm, CallArgs(pwm, branches[1], branches[2])[n]) =>
                FirstKeeps(pwm, CallArgs(pwm, branches[1], branches[2])[n])

\* C14, amended: in an overlap test of equal writhes the interval the code
\* takes as a keeps and the other is truncated: the first-listed branch wins
\* in cases 1 and 3 (the later branch's interval ends inside the first's, or is
\* nested in it), the later-listed branch wins in cases 2 and 4 (the first
\* branch's interval ends inside the later's, or is nested in it) and when the
\* two intervals are identical.
C14_TieKeepsA ==
    TwoBranches =>
        \A n \in 1 .. 4 :
            Tie(pwm, CallArgs(pwm, branches[1], branches[2])[n]) =>
                IF SecondIsA(CallArgs(pwm, branches[1], branches[2])[n])
                THEN SecondKeeps(pwm, CallArgs(pwm, branches[1], branches[2])[n])
                ELSE FirstKeeps(pwm, CallArgs(pwm, branches[1], branches[2])[n])

\* a tie of non-zero writhes in the first call, on the y-intervals of two valid
\* branches, in which the later-listed branch keeps its interval and the
\* first-listed branch loses part of its own
C14_TieLaterWins ==
    /\ TwoBranches
    /\ Tie(pwm, CallArgs(pwm, branches[1], branches[2])[1])
    /\ ComparedWrithes(pwm, CallArgs(pwm, branches[1], branches[2])[1])[1] # 0
    /\ SecondIsA(CallArgs(pwm, branches[1], branches[2])[1])
    /\ SecondKeeps(pwm, CallArgs(pwm, branches[1], branches[2])[1])
    /\ Result(pwm, CallArgs(pwm, branches[1], branches[2])[1])[1] #
           << branches[1].y1, branches[1].y2 >>

\* the comparisons of one pass of _remove_branch_overlap over bs, in the order
\* the two loops make them: each entry holds the positions i < j of the two
\* branches and the list before and after the four calls on them
RECURSIVE ComparisonsInner(_, _, _, _)
ComparisonsInner(W, bs, i, j) ==
    IF j > Len(bs) THEN << >>
    ELSE IF bs[j].y2 < bs[j].y1 THEN ComparisonsInner(W, bs, i, j + 1)
    ELSE << [i |-> i, j |-> j, before |-> bs,
             after |-> [bs EXCEPT ![i] = ResolvePair(W, bs[i], bs[j])[1],
                                  ![j] = ResolvePair(W, bs[i], bs[j])[2]]] >>
         \o ComparisonsInner(W, [bs EXCEPT ![i] = ResolvePair(W, bs[i], bs[j])[1],
                                           ![j] = ResolvePair(W, bs[i], bs[j])[2]],
                             i, j + 1)

RECURSIVE Comparisons(_, _, _)
Comparisons(W, bs, i) ==
    IF i > Len(bs) - 1 THEN << >>
    ELSE IF bs[i].y2 < bs[i].y1 THEN Comparisons(W, bs, i + 1)
    ELSE ComparisonsInner(W, bs, i, i + 1)
         \o Comparisons(W, OverlapInner(W, bs, i, i + 1), i + 1)

EmptyBranch(b) == b.x1 > b.x2 \/ b.y1 > b.y2

\* the rectangles << of bi, of bj >> before the first of the four calls of
\* lines 462-465 and after each of them
CallStates(W, bi, bj) ==
    LET r(n) == Result(W, CallArgs(W, bi, bj)[n])
        s1 == << [bi EXCEPT !.y1 = r(1)[1][1], !.y2 = r(1)[1][2]],
                 [bj EXCEPT !.y1 = r(1)[2][1], !.y2 = r(1)[2][2]] >>
        s2 == << [s1[1] EXCEPT !.x1 = r(2)[1][1], !.x2 = r(2)[1][2]],
                 [s1[2] EXCEPT !.y1 = r(2)[2][1], !.y2 = r(2)[2][2]] >>
        s3 == << [s2[1] EXCEPT !.y1 = r(3)[1][1], !.y2 = r(3)[1][2]],
                 [s2[2] EXCEPT !.x1 = r(3)[2][1], !.x2 = r(3)[2][2]] >>
        s4 == << [s3[1] EXCEPT !.x1 = r(4)[1][1], !.x2 = r(4)[1][2]],
                 [s3[2] EXCEPT !.x1 = r(4)[2][1], !.x2 = r(4)[2][2]] >>
    IN  << << bi, bj >>, s1, s2, s3, s4 >>

\* the call that leads from the rectangles s to the rectangles t leaves the
\* branch k as it is whenever that branch is valid and the other one, e, which
\* it is compared with, is empty
EmptyLeavesValid(s, t, e, k) ==
    (EmptyBranch(s[e]) /\ ~EmptyBranch(s[k])) => t[k] = s[k]

\* the same for each of the four calls of the comparison c
ComparisonInert(W, c) ==
    \A n \in 1 .. 4 :
        /\ EmptyLeavesValid(CallStates(W, c.before[c.i], c.before[c.j])[n],
                            CallStates(W, c.before[c.i], c.before[c.j])[n + 1], 1, 2)
        /\ EmptyLeavesValid(CallStates(W, c.before[c.i], c.before[c.j])[n],
                            CallStates(W, c.before[c.i], c.before[c.j])[n + 1], 2, 1)

\* C15: once a branch has an empty x- or y-interval, no later comparison in
\* which it takes part changes the rectangle of the other branch, if that one
\* is still valid.
C15_EmptyBranchInert ==
    pc \in {"overlap", "fn_overlap"} =>
        \A n \in 1 .. Len(Comparisons(pwm, pre, 1)) :
            ComparisonInert(pwm, Comparisons(pwm, pre, 1)[n])

\* the branches that survive _remove_branch_overlap followed by
\* _remove_flagged_branches
Survivors ==
    IF pc = "conflicts" THEN branches
    ELSE remove_flagged_branches(branches, branches)

Disjoint(lo1, hi1, lo2, hi2) == hi1 < lo2 \/ hi2 < lo1

NoCommonIndex(a, b) ==
    /\ Disjoint(a.x1, a.x2, b.x1, b.x2)
    /\ Disjoint(a.x1, a.x2, b.y1, b.y2)
    /\ Disjoint(a.y1, a.y2, b.x1, b.x2)
    /\ Disjoint(a.y1, a.y2, b.y1, b.y2)

\* C16: after the overlap removal and the removal of the flagged branches the
\* x- and y-intervals of any two distinct surviving branches are disjoint in
\* all four combinations, and every surviving branch has x1 <= x2, y1 <= y2.
C16_SurvivorsDisjoint ==
    pc \in {"conflicts", "fn_overlap"} =>
        /\ \A k \in 1 .. Len(Survivors) : ~EmptyBranch(Survivors[k])
        /\ \A k \in 1 .. Len(Survivors) : \A m \in 1 .. Len(Survivors) :
               k # m => NoCommonIndex(Survivors[k], Survivors[m])

\* two valid branches with a common index went in and both came out, cut down
C16_OverlapCutDown ==
    /\ pc = "fn_overlap"
    /\ Len(pre) = 2
    /\ ~NoCommonIndex(pre[1], pre[2])
    /\ Len(Survivors) = 2
    /\ Survivors # pre
    /\ NoCommonIndex(Survivors[1], Survivors[2])

\* the rows whose sum is strictly greater than the threshold
RowsAbove == {i \in Idx : SumRow(pwm, i, 0, N) > par.T}

\* the columns attaining the maximum of row i
MaxColumns(i) == {j \in Idx : \A k \in Idx : pwm[i][k] <= pwm[i][j]}

\* the pair of the reference for row i: the row and its partner, the lowest
\* column attaining the row maximum, smaller index first
ReferencePair(i) ==
    LET j == CHOOSE c \in MaxColumns(i) : \A d \in MaxColumns(i) : c <= d
    IN  IF j < i THEN << j, i >> ELSE << i, j >>

\* C17: the pair detector returns exactly one pair for each row whose sum is
\* strictly greater than the threshold and none for any other row, the partner
\* being the lowest column attaining the row maximum; each pair has its first
\* component <= its second, and the list is ascending in the first component.
C17_PairsReference ==
    pc = "pairs" =>
        /\ Len(pairs) = Cardinality(RowsAbove)
        /\ \A q \in Idx \X Idx :
               Cardinality({k \in 1 .. Len(pairs) : << pairs[k].x, pairs[k].y >> = q})
                   = Cardinality({i \in RowsAbove : ReferencePair(i) = q})
        /\ \A k \in 1 .. Len(pairs) : pairs[k].x <= pairs[k].y
        /\ \A k \in 1 .. (Len(pairs) - 1) : pairs[k].x <= pairs[k + 1].x

\* a row with its sum on the threshold emits nothing while other rows emit: one
\* whose maximum is attained in two columns, and one whose partner has the
\* smaller index, so that its pair is stored mirrored
C17_PairsEmitted ==
    /\ pc = "pairs"
    /\ \E i \in Idx : SumRow(pwm, i, 0, N) = par.T /\ par.T > 0
    /\ \E i \in RowsAbove : Cardinality(MaxColumns(i)) > 1
    /\ \E i \in RowsAbove : ReferencePair(i)[2] = i /\ ReferencePair(i)[1] < i
    /\ Len(pairs) >= 3

\* the positions of the branches that start a composite, found from the outer
\* extents x1, y2 alone: a branch starts one when it is downstream of the
\* extent [x1, y2] of no earlier starter
RECURSIVE StartersFrom(_, _, _)
StartersFrom(bs, i, acc) ==
    IF i > Len(bs) THEN acc
    ELSE IF \E k \in 1 .. Len(acc) :
                is_downstream(bs[acc[k]].x1, bs[acc[k]].y2, bs[i].x1, bs[i].y2)
         THEN StartersFrom(bs, i + 1, acc)
         ELSE StartersFrom(bs, i + 1, Append(acc, i))

Starters(bs) == StartersFrom(bs, 1, << >>)

\* the composites present before branch i is processed keep x1 and y2 when it
\* is processed
OuterExtentKept(before, after) ==
    \A j \in 1 .. Len(before) :
        after[j].x1 = before[j].x1 /\ after[j].y2 = before[j].y2

\* C18: a composite keeps the x1 and y2 of the branch that started it through
\* every step of the combiner, so the candidates [x1, y2] of _define_plecs are
\* those of the starting branches, which the connectivity tests do not
\* influence; and the combiner leaves its input list as it was.
C18_OuterExtentFixed ==
    pc = "define" =>
        /\ \A i \in 1 .. Len(branches) :
               OuterExtentKept(CombAtStep(branches, i)[1],
                               CombAtStep(branches, i + 1)[1])
        /\ CombAtStep(branches, Len(branches) + 1) = << comb, contained >>
        /\ Len(comb) = Len(Starters(branches))
        /\ \A j \in 1 .. Len(comb) :
               Candidate(comb[j]) = Candidate(branches[Starters(branches)[j]])
        /\ branches = remove_flagged_branches(pre, pre)

\* one of several composites was widened on both inner sides by a branch it
\* took in, its outer extent being that of the branch that started it
C18_CompositeWidened ==
    /\ pc = "define"
    /\ Len(comb) >= 2
    /\ \E j \in 1 .. Len(comb) :
           /\ comb[j].x2 > branches[Starters(branches)[j]].x2
           /\ comb[j].y1 < branches[Starters(branches)[j]].y1
           /\ comb[j].x1 = branches[Starters(branches)[j]].x1
           /\ comb[j].y2 = branches[Starters(branches)[j]].y2

====
